---------------------------- MODULE Spec2Model ----------------------------
(***************************************************************************)
(* SceneManager (Project7/Source/SceneManager.cpp): the texture registry,  *)
(* the material catalog, the shader-state pushes and the fixed scene.      *)
(*                                                                         *)
(* Numbers that are floats in the source are fixed-point integers here,    *)
(* in thousandths (0.18 is 180, 20.0 is 20000).  GL texture names are      *)
(* positive integers handed out in increasing order by glGenTextures;      *)
(* name 0 is GL's "no texture".                                            *)
(***************************************************************************)
EXTENDS Integers, Sequences, FiniteSets, TLC

VARIABLES
    m_loadedTextures,   \* int: number of registered textures
    m_textureIDs,       \* array of {ID, tag}, indexed from 0
    m_objectMaterials,  \* std::vector<OBJECT_MATERIAL>
    glNextName,         \* the name the next glGenTextures call returns
    glTextures,         \* GL texture names that are allocated and not deleted
    glActive,           \* the active texture unit (glActiveTexture)
    glBound,            \* texture unit -> name bound to GL_TEXTURE_2D there
    sink,               \* the shader's uniforms (ShaderManager)
    frame,              \* uniform pushes and draws of the last RenderScene
    prevFrame,          \* those of the RenderScene before it
    pc,                 \* position of the host program in the scene lifecycle
    sceneImages,        \* what stbi_load gave for each scene texture file
    last,               \* the last call: operation, arguments, results
    registered          \* history: <<tag, ID>> of each successful CreateGLTexture

vars == <<m_loadedTextures, m_textureIDs, m_objectMaterials, glNextName,
          glTextures, glActive, glBound, sink, frame, prevFrame, pc,
          sceneImages, last, registered>>

glVars == <<glNextName, glTextures, glActive, glBound>>
textureVars == <<m_loadedTextures, m_textureIDs, registered>>
sceneVars == <<frame, prevFrame, pc, sceneImages>>

-----------------------------------------------------------------------------
(* Bounds of the model *)

\* registrations made through the public interface in Spec
MaxLoaded == 3
\* GL texture names handed out in Spec
MaxNames == 5
\* registrations in FillSpec
MaxFill == 17
\* registrations in ShaderSpec
MaxShaderLoaded == 2

(* Program constants *)

\* "There are up to 16 slots" (BindGLTextures), "Up to 16 textures can be
\* loaded per scene" (LoadSceneTextures)
MaxTextureUnits == 16

-----------------------------------------------------------------------------
(* Inputs *)

\* stbi_load: NULL when the file does not decode
\* (loaded = FALSE, colorChannels keeps its initial 0), or an image with
\* 1..4 channels
NoImage == [loaded |-> FALSE, colorChannels |-> 0]
Images == {NoImage} \cup {[loaded |-> TRUE, colorChannels |-> c] : c \in 1..4}

TextureTags == {"wall", "table", "vase"}
MaterialTags == {"plastic", "wood", "glass", "metal"}
Colors == {<<180, 190, 190, 1000>>, <<0, 480, 890, 1000>>}

\* arguments of SetTransformations: the unit scale and one the scene uses,
\* no rotation or a rotation about one axis by an angle the scene uses
\* (X, Y, Z degrees), offsets per axis
Scales == {<<1000, 1000, 1000>>, <<1600, 1800, 200>>}
Rotations == {<<0, 0, 0>>, <<-20, 0, 0>>, <<0, -20, 0>>, <<0, 0, -20>>}
Offsets == {0, -1400, 3000}
Positions == {<<x, y, z>> : x \in Offsets, y \in Offsets, z \in Offsets}

\* the tag of the i-th registration of a scene whose tags are all different
FillTag(i) == "texture" \o ToString(i)

-----------------------------------------------------------------------------
(* Texture lookups *)

RECURSIVE FindTextureScanFromZero(_, _, _, _)
\* a variant whose result starts at 0 instead of -1
FindTextureScanFromZero(ids, n, tag, index) ==
    IF index < n
    THEN IF ids[index].tag = tag
         THEN index
         ELSE FindTextureScanFromZero(ids, n, tag, index + 1)
    ELSE 0

RECURSIVE FindTextureScanLast(_, _, _, _)
\* a variant that keeps scanning and returns the last index that matches
FindTextureScanLast(ids, n, tag, index) ==
    IF index < n
    THEN LET rest == FindTextureScanLast(ids, n, tag, index + 1)
         IN  IF rest # -1 THEN rest
             ELSE IF ids[index].tag = tag THEN index ELSE -1
    ELSE -1

RECURSIVE FindTextureScan(_, _, _, _)
\* the while loop shared by FindTextureID and FindTextureSlot: the first
\* index >= index whose tag compares equal, or -1
FindTextureScan(ids, n, tag, index) ==
    IF index < n
    THEN IF ids[index].tag = tag
         THEN index
         ELSE FindTextureScan(ids, n, tag, index + 1)
    ELSE -1

FindTextureSlotOf(ids, n, tag) == FindTextureScan(ids, n, tag, 0)

\* a variant whose result starts at 0 instead of -1
FindTextureIDOfFromZero(ids, n, tag) ==
    LET index == FindTextureScan(ids, n, tag, 0)
    IN  IF index = -1 THEN 0 ELSE ids[index].ID

FindTextureIDOf(ids, n, tag) ==
    LET index == FindTextureScan(ids, n, tag, 0)
    IN  IF index = -1 THEN -1 ELSE ids[index].ID

Call(op, arg, ret, out) == [op |-> op, arg |-> arg, ret |-> ret, out |-> out]

\* int SceneManager::FindTextureID(std::string tag)
FindTextureID(tag) ==
    /\ last' = Call("FindTextureID", tag,
                    FindTextureIDOf(m_textureIDs, m_loadedTextures, tag), "")
    /\ UNCHANGED <<textureVars, m_objectMaterials, glVars, sink>>

\* int SceneManager::FindTextureSlot(std::string tag)
FindTextureSlot(tag) ==
    /\ last' = Call("FindTextureSlot", tag,
                    FindTextureSlotOf(m_textureIDs, m_loadedTextures, tag), "")
    /\ UNCHANGED <<textureVars, m_objectMaterials, glVars, sink>>

-----------------------------------------------------------------------------
(* Texture registration, binding, release *)

\* the channel counts CreateGLTexture uploads
SupportedChannelsLoose(colorChannels) == colorChannels \in {2, 3, 4}

SupportedChannels(colorChannels) == colorChannels \in {3, 4}

\* a variant that registers at a fixed slot instead of the next free one
RegisterAtZero(ids, n, textureID, tag) ==
    [i \in (DOMAIN ids) \cup {0} |->
        IF i = 0 THEN [ID |-> textureID, tag |-> tag] ELSE ids[i]]

\* m_textureIDs[m_loadedTextures].ID = textureID; .tag = tag
Register(ids, n, textureID, tag) ==
    [i \in (DOMAIN ids) \cup {n} |->
        IF i = n THEN [ID |-> textureID, tag |-> tag] ELSE ids[i]]

\* bool SceneManager::CreateGLTexture(const char* filename, std::string tag)
\* image is what stbi_load returns for filename.
CreateGLTexture(image, tag) ==
    /\ IF image.loaded
       THEN LET textureID == glNextName        \* glGenTextures(1, &textureID)
            IN  /\ glNextName' = glNextName + 1
                /\ glTextures' = glTextures \cup {textureID}
                /\ glActive' = glActive
                /\ IF SupportedChannels(image.colorChannels)
                   THEN \* the texture is bound, filled, and unbound again
                        /\ glBound' = [glBound EXCEPT ![glActive] = 0]
                        /\ m_textureIDs' =
                              Register(m_textureIDs, m_loadedTextures, textureID, tag)
                        /\ m_loadedTextures' = m_loadedTextures + 1
                        /\ registered' = Append(registered, <<tag, textureID>>)
                        /\ last' = Call("CreateGLTexture",
                                        <<image, tag>>, TRUE, textureID)
                   ELSE \* return false with the new texture still bound
                        /\ glBound' = [glBound EXCEPT ![glActive] = textureID]
                        /\ UNCHANGED textureVars
                        /\ last' = Call("CreateGLTexture",
                                        <<image, tag>>, FALSE, textureID)
       ELSE /\ UNCHANGED <<glVars, textureVars>>
            /\ last' = Call("CreateGLTexture", <<image, tag>>, FALSE, 0)
    /\ UNCHANGED <<m_objectMaterials, sink>>

RECURSIVE BindLoopNoActiveTexture(_, _, _, _)
\* a variant that leaves out glActiveTexture: every texture is bound on the
\* unit that was active before
BindLoopNoActiveTexture(ids, n, i, gl) ==
    IF i < n
    THEN BindLoopNoActiveTexture(ids, n, i + 1,
            [active |-> gl.active,
             bound  |-> [gl.bound EXCEPT ![gl.active] = ids[i].ID],
             calls  |-> Append(gl.calls, <<gl.active, ids[i].ID>>)])
    ELSE gl

RECURSIVE BindLoop(_, _, _, _)
\* the for loop of BindGLTextures from index i on; gl is the GL state the
\* loop works on: the active unit, the bindings, and the calls made so far
BindLoop(ids, n, i, gl) ==
    IF i < n
    THEN BindLoop(ids, n, i + 1,
            [active |-> i,                                \* glActiveTexture
             bound  |-> [u \in (DOMAIN gl.bound) \cup {i} |->
                            IF u = i THEN ids[i].ID ELSE gl.bound[u]],
             calls  |-> Append(gl.calls, <<i, ids[i].ID>>)])  \* glBindTexture
    ELSE gl

\* void SceneManager::BindGLTextures()
BindGLTextures ==
    LET gl == BindLoop(m_textureIDs, m_loadedTextures, 0,
                       [active |-> glActive, bound |-> glBound, calls |-> << >>])
    IN  /\ glActive' = gl.active
        /\ glBound' = gl.bound
        /\ last' = Call("BindGLTextures", "", "", gl.calls)
        /\ UNCHANGED <<glNextName, glTextures, textureVars, m_objectMaterials,
                       sink>>

\* void SceneManager::DestroyGLTextures(): glGenTextures(1, &m_textureIDs[i].ID)
\* for each registered i
DestroyGLTextures ==
    /\ m_textureIDs' =
          [i \in DOMAIN m_textureIDs |->
              IF i < m_loadedTextures
              THEN [m_textureIDs[i] EXCEPT !.ID = glNextName + i]
              ELSE m_textureIDs[i]]
    /\ glNextName' = glNextName + m_loadedTextures
    /\ glTextures' =
          glTextures \cup {glNextName + i : i \in 0 .. (m_loadedTextures - 1)}
    /\ last' = Call("DestroyGLTextures", "", "",
                    {glNextName + i : i \in 0 .. (m_loadedTextures - 1)})
    /\ UNCHANGED <<m_loadedTextures, registered, glActive, glBound,
                   m_objectMaterials, sink>>

-----------------------------------------------------------------------------
(* Materials *)

Vec3(x, y, z) == <<x, y, z>>

Material(tag, ambientColor, ambientStrength, diffuseColor, specularColor, shininess) ==
    [tag |-> tag, ambientColor |-> ambientColor,
     ambientStrength |-> ambientStrength, diffuseColor |-> diffuseColor,
     specularColor |-> specularColor, shininess |-> shininess]

\* the three push_back calls of DefineObjectMaterials
SeedMaterials ==
    << Material("plastic", Vec3(100, 100, 100), 300, Vec3(200, 200, 200),
                Vec3(500, 500, 500), 6000),
       Material("wood", Vec3(200, 200, 200), 300, Vec3(200, 200, 200),
                Vec3(500, 500, 500), 0),
       Material("glass", Vec3(200, 200, 200), 300, Vec3(200, 200, 200),
                Vec3(500, 500, 500), 8000) >>

\* What an OBJECT_MATERIAL that was declared and never assigned may hold:
\* any value; two of them stand for all.
IndeterminateMaterials ==
    { Material("", Vec3(g, g, g), g, Vec3(g, g, g), Vec3(g, g, g), g) : g \in {0, 777} }

\* a variant that finds no tag
FindMaterialScanMiss(materials, tag, index) == -1

RECURSIVE FindMaterialScan(_, _, _)
\* the while loop of FindMaterial: the first index (from 0) >= index whose
\* tag compares equal, or -1 when the loop runs off the end
FindMaterialScan(materials, tag, index) ==
    IF index < Len(materials)
    THEN IF materials[index + 1].tag = tag
         THEN index
         ELSE FindMaterialScan(materials, tag, index + 1)
    ELSE -1

\* bool SceneManager::FindMaterial(std::string tag, OBJECT_MATERIAL& material):
\* the value returned and the material the caller holds afterwards
FindMaterialOf(materials, tag, material) ==
    IF Len(materials) = 0
    THEN [ret |-> FALSE, material |-> material]
    ELSE LET index == FindMaterialScan(materials, tag, 0)
         IN  [ret |-> TRUE,                                  \* return(true)
              material |->
                 IF index = -1
                 THEN material
                 ELSE \* the five fields are copied, the tag is not
                      [material EXCEPT
                         !.ambientColor = materials[index + 1].ambientColor,
                         !.ambientStrength = materials[index + 1].ambientStrength,
                         !.diffuseColor = materials[index + 1].diffuseColor,
                         !.specularColor = materials[index + 1].specularColor,
                         !.shininess = materials[index + 1].shininess]]

FindMaterial(tag, material) ==
    /\ LET r == FindMaterialOf(m_objectMaterials, tag, material)
       IN  last' = Call("FindMaterial", <<tag, material>>, r.ret, r.material)
    /\ UNCHANGED <<textureVars, m_objectMaterials, glVars, sink>>

\* void SceneManager::DefineObjectMaterials()
DefineObjectMaterials ==
    /\ m_objectMaterials' = m_objectMaterials \o SeedMaterials
    /\ last' = Call("DefineObjectMaterials", "", "", "")
    /\ UNCHANGED <<textureVars, glVars, sink>>

-----------------------------------------------------------------------------
(* The uniform sink: a push sets one named uniform *)

Push(name, value) == [name |-> name, value |-> value]

RECURSIVE LastPush(_, _, _)
\* the index of the last push of uniform name among pushes[1..i], or 0
LastPush(pushes, name, i) ==
    IF i = 0 THEN 0
    ELSE IF pushes[i].name = name THEN i
    ELSE LastPush(pushes, name, i - 1)

\* the uniforms after the pushes: each keeps the value pushed last (draws
\* leave them alone)
ApplyPushes(uniforms, pushes) ==
    LET names == {pushes[i].name : i \in DOMAIN pushes} \ {"draw"}
    IN  [u \in (DOMAIN uniforms) \cup names |->
            IF u \in names
            THEN pushes[LastPush(pushes, u, Len(pushes))].value
            ELSE uniforms[u]]

\* void SceneManager::SetShaderMaterial(std::string materialTag): the pushes
\* it makes; material is the value its local OBJECT_MATERIAL starts with
ShaderMaterialPushes(materials, materialTag, material) ==
    IF Len(materials) > 0
    THEN LET r == FindMaterialOf(materials, materialTag, material)
         IN  IF r.ret = TRUE
             THEN << Push("material.ambientColor", r.material.ambientColor),
                     Push("material.ambientStrength", r.material.ambientStrength),
                     Push("material.diffuseColor", r.material.diffuseColor),
                     Push("material.specularColor", r.material.specularColor),
                     Push("material.shininess", r.material.shininess) >>
             ELSE << >>
    ELSE << >>

SetShaderMaterial(materialTag) ==
    \E material \in IndeterminateMaterials :
        /\ last' = Call("SetShaderMaterial", materialTag, "",
                ShaderMaterialPushes(m_objectMaterials, materialTag, material))
        /\ sink' = ApplyPushes(sink, last'.out)
        /\ UNCHANGED <<textureVars, m_objectMaterials, glVars>>

\* a variant that leaves the use-texture flag as it is
ShaderColorPushesKeepsFlag(r, g, b, a) ==
    << Push("objectColor", <<r, g, b, a>>) >>

\* void SceneManager::SetShaderColor(float, float, float, float)
ShaderColorPushes(r, g, b, a) ==
    << Push("bUseTexture", FALSE), Push("objectColor", <<r, g, b, a>>) >>

\* void SceneManager::SetShaderTexture(std::string textureTag)
ShaderTexturePushes(ids, n, textureTag) ==
    << Push("bUseTexture", TRUE),
       Push("objectTexture", FindTextureSlotOf(ids, n, textureTag)) >>

SetShaderColor(r, g, b, a) ==
    /\ last' = Call("SetShaderColor", <<r, g, b, a>>, "", ShaderColorPushes(r, g, b, a))
    /\ sink' = ApplyPushes(sink, last'.out)
    /\ UNCHANGED <<textureVars, m_objectMaterials, glVars>>

SetShaderTexture(textureTag) ==
    /\ last' = Call("SetShaderTexture", textureTag, "",
                    ShaderTexturePushes(m_textureIDs, m_loadedTextures, textureTag))
    /\ sink' = ApplyPushes(sink, last'.out)
    /\ UNCHANGED <<textureVars, m_objectMaterials, glVars>>

\* void SceneManager::SetTextureUVScale(float u, float v)
TextureUVScalePushes(u, v) == << Push("UVscale", <<u, v>>) >>

-----------------------------------------------------------------------------
(* Transformations: 4x4 matrices as rows of fixed-point entries *)

\* cos and sin of the angles the scene uses (glm::radians, then cos/sin)
CosDeg(d) ==
    CASE d = 0 -> 1000 [] d = 4 -> 998 [] d = -20 -> 940 [] d = 90 -> 0

SinDeg(d) ==
    CASE d = 0 -> 0 [] d = 4 -> 70 [] d = -20 -> -342 [] d = 90 -> 1000

\* one entry of a matrix product: row i of a times column j of b
Dot(a, b, i, j) ==
    (a[i][1] * b[1][j] + a[i][2] * b[2][j]
        + a[i][3] * b[3][j] + a[i][4] * b[4][j]) \div 1000

\* glm::mat4 operator*
MatMul(A, B) ==
    CHOOSE m \in
        { << <<Dot(a, b, 1, 1), Dot(a, b, 1, 2), Dot(a, b, 1, 3), Dot(a, b, 1, 4)>>,
             <<Dot(a, b, 2, 1), Dot(a, b, 2, 2), Dot(a, b, 2, 3), Dot(a, b, 2, 4)>>,
             <<Dot(a, b, 3, 1), Dot(a, b, 3, 2), Dot(a, b, 3, 3), Dot(a, b, 3, 4)>>,
             <<Dot(a, b, 4, 1), Dot(a, b, 4, 2), Dot(a, b, 4, 3), Dot(a, b, 4, 4)>> >>
          : a \in {A}, b \in {B} } : TRUE

\* glm::scale(scaleXYZ)
ScaleMatrix(v) ==
    << <<v[1], 0, 0, 0>>, <<0, v[2], 0, 0>>, <<0, 0, v[3], 0>>, <<0, 0, 0, 1000>> >>

\* glm::rotate(angle, axis) for the three coordinate axes
RotationX(d) ==
    << <<1000, 0, 0, 0>>, <<0, CosDeg(d), -SinDeg(d), 0>>,
       <<0, SinDeg(d), CosDeg(d), 0>>, <<0, 0, 0, 1000>> >>

RotationY(d) ==
    << <<CosDeg(d), 0, SinDeg(d), 0>>, <<0, 1000, 0, 0>>,
       <<-SinDeg(d), 0, CosDeg(d), 0>>, <<0, 0, 0, 1000>> >>

RotationZ(d) ==
    << <<CosDeg(d), -SinDeg(d), 0, 0>>, <<SinDeg(d), CosDeg(d), 0, 0>>,
       <<0, 0, 1000, 0>>, <<0, 0, 0, 1000>> >>

\* glm::translate(positionXYZ)
TranslationMatrix(p) ==
    << <<1000, 0, 0, p[1]>>, <<0, 1000, 0, p[2]>>,
       <<0, 0, 1000, p[3]>>, <<0, 0, 0, 1000>> >>

\* a variant that leaves the translation out of the product
ModelViewNoTranslation(scaleXYZ, XrotationDegrees, YrotationDegrees, ZrotationDegrees, positionXYZ) ==
    MatMul(MatMul(MatMul(RotationX(XrotationDegrees),
                         RotationY(YrotationDegrees)),
                  RotationZ(ZrotationDegrees)),
           ScaleMatrix(scaleXYZ))

\* modelView = translation * rotationX * rotationY * rotationZ * scale
ModelView(scaleXYZ, XrotationDegrees, YrotationDegrees, ZrotationDegrees, positionXYZ) ==
    MatMul(MatMul(MatMul(MatMul(TranslationMatrix(positionXYZ),
                                RotationX(XrotationDegrees)),
                         RotationY(YrotationDegrees)),
                  RotationZ(ZrotationDegrees)),
           ScaleMatrix(scaleXYZ))

\* void SceneManager::SetTransformations(...)
TransformationPushes(scaleXYZ, XrotationDegrees, YrotationDegrees, ZrotationDegrees, positionXYZ) ==
    << Push("model", ModelView(scaleXYZ, XrotationDegrees, YrotationDegrees,
                               ZrotationDegrees, positionXYZ)) >>

SetTransformations(scaleXYZ, XrotationDegrees, YrotationDegrees, ZrotationDegrees, positionXYZ) ==
    /\ last' = Call("SetTransformations",
                    [scaleXYZ |-> scaleXYZ, XrotationDegrees |-> XrotationDegrees,
                     YrotationDegrees |-> YrotationDegrees,
                     ZrotationDegrees |-> ZrotationDegrees,
                     positionXYZ |-> positionXYZ],
                    "",
                    TransformationPushes(scaleXYZ, XrotationDegrees, YrotationDegrees,
                                         ZrotationDegrees, positionXYZ))
    /\ sink' = ApplyPushes(sink, last'.out)
    /\ UNCHANGED <<textureVars, m_objectMaterials, glVars>>

-----------------------------------------------------------------------------
(* The scene: what each builder calls, in order *)

Transform(scaleXYZ, XrotationDegrees, YrotationDegrees, ZrotationDegrees, positionXYZ) ==
    [op |-> "SetTransformations", scaleXYZ |-> scaleXYZ,
     XrotationDegrees |-> XrotationDegrees, YrotationDegrees |-> YrotationDegrees,
     ZrotationDegrees |-> ZrotationDegrees, positionXYZ |-> positionXYZ]

Color(r, g, b, a) == [op |-> "SetShaderColor", color |-> <<r, g, b, a>>]

Texture(tag) == [op |-> "SetShaderTexture", tag |-> tag]

UseMaterial(tag) == [op |-> "SetShaderMaterial", tag |-> tag]

Draw(mesh) == [op |-> "Draw", mesh |-> mesh]

\* void SceneManager::createDesktop()
createDesktop ==
    << Transform(<<1600, 1800, 200>>, 0, 0, 0, <<-1400, 1000, 3200>>),
       Color(180, 190, 190, 1000),
       UseMaterial("plastic"),
       Draw("Box"),
       Transform(<<5600, 3400, 200>>, -20, 0, 0, <<-1400, 3000, 3000>>),
       Color(180, 190, 190, 1000),
       UseMaterial("plastic"),
       Draw("Box"),
       Transform(<<4000, 1800, 100>>, 90, 0, 0, <<-1400, 0, 3000>>),
       UseMaterial("plastic"),
       Color(180, 190, 190, 1000),
       Draw("Box"),
       Transform(<<5200, 3200, 20>>, -20, 0, 0, <<-1400, 3050, 3130>>),
       Color(640, 240, 890, 1000),
       Texture("monitor"),
       UseMaterial("glass"),
       Draw("Box") >>

\* void SceneManager::createPaperTowel()
createPaperTowel ==
    << Transform(<<1000, 2300, 1000>>, 0, 0, 0, <<5400, 10, 1800>>),
       Color(180, 190, 190, 1000),
       Texture("paperTowel"),
       UseMaterial("plastic"),
       Draw("Cylinder"),
       Transform(<<250, 10, 250>>, 0, 0, 4, <<5400, 2340, 1800>>),
       Color(280, 230, 150, 1000),
       Draw("Sphere") >>

\* void SceneManager::createFlowerPot()
createFlowerPot ==
    << Transform(<<150, 400, 150>>, 0, 0, 0, <<-6900, 2000, 1200>>),
       Color(180, 190, 190, 1000),
       Texture("vase"),
       UseMaterial("glass"),
       Draw("Cylinder"),
       Transform(<<130, 10, 130>>, 0, 0, 0, <<-6900, 2400, 1200>>),
       Color(0, 0, 0, 1000),
       Draw("Cylinder"),
       Transform(<<700, 900, 500>>, 0, 0, 0, <<-6900, 1000, 1200>>),
       Color(180, 190, 190, 1000),
       UseMaterial("glass"),
       Texture("vase"),
       Draw("Sphere"),
       Transform(<<400, 700, 400>>, 0, 0, 0, <<-6900, 1500, 1200>>),
       Color(180, 190, 190, 1000),
       UseMaterial("glass"),
       Texture("vase"),
       Draw("Cone"),
       Transform(<<550, 700, 500>>, 0, 0, 0, <<-6900, 0, 1200>>),
       Color(180, 190, 190, 1000),
       Texture("vase"),
       UseMaterial("plastic"),
       Draw("Cone") >>

\* void SceneManager::createCoffeeMug()
createCoffeeMug ==
    << Transform(<<600, 320, 0>>, 0, 0, 0, <<3400, 600, 3000>>),
       Color(0, 480, 890, 1000),
       UseMaterial("glass"),
       Draw("Torus"),
       Transform(<<480, 120, 480>>, 0, 0, 4, <<2900, 1140, 3000>>),
       Color(0, 180, 500, 1000),
       Draw("Sphere"),
       Transform(<<500, 1200, 500>>, 0, 0, 4, <<3000, 0, 3000>>),
       Color(0, 480, 890, 1000),
       UseMaterial("glass"),
       Draw("Cylinder") >>

\* void SceneManager::createTable()
createTable ==
    << Transform(<<20000, 200, 10000>>, 0, 0, 0, <<0, -100, 0>>),
       Texture("table"),
       UseMaterial("wood"),
       Draw("Box") >>

\* a variant that draws the wall without a SetTransformations call of its own
createWallNoTransform ==
    << Texture("wall"),
       UseMaterial("wood"),
       Draw("Plane") >>

\* void SceneManager::createWall()
createWall ==
    << Transform(<<10000, 2000, 5000>>, 90, 0, 0, <<0, 5000, -5000>>),
       Texture("wall"),
       UseMaterial("wood"),
       Draw("Plane") >>

\* void SceneManager::RenderScene(): the builders in call order
RenderSceneCalls ==
    createCoffeeMug \o createDesktop \o createTable \o createPaperTowel
        \o createFlowerPot \o createWall

RECURSIVE SceneTransformationPushes(_)
\* what the SetTransformations calls among the calls from the i-th on push:
\* their arguments are fixed, so this is computed once (<< >> stands at
\* the other calls)
SceneTransformationPushes(i) ==
    IF i > Len(RenderSceneCalls)
    THEN << >>
    ELSE << IF RenderSceneCalls[i].op = "SetTransformations"
            THEN TransformationPushes(RenderSceneCalls[i].scaleXYZ,
                                      RenderSceneCalls[i].XrotationDegrees,
                                      RenderSceneCalls[i].YrotationDegrees,
                                      RenderSceneCalls[i].ZrotationDegrees,
                                      RenderSceneCalls[i].positionXYZ)
            ELSE << >> >>
         \o SceneTransformationPushes(i + 1)

RenderSceneTransformations == SceneTransformationPushes(1)

\* the pushes and the draw the i-th call of RenderScene's builders makes
CallPushes(i, ids, n, materials, material) ==
    CASE RenderSceneCalls[i].op = "SetTransformations" ->
            RenderSceneTransformations[i]
      [] RenderSceneCalls[i].op = "SetShaderColor" ->
            ShaderColorPushes(RenderSceneCalls[i].color[1], RenderSceneCalls[i].color[2],
                              RenderSceneCalls[i].color[3], RenderSceneCalls[i].color[4])
      [] RenderSceneCalls[i].op = "SetShaderTexture" ->
            ShaderTexturePushes(ids, n, RenderSceneCalls[i].tag)
      [] RenderSceneCalls[i].op = "SetShaderMaterial" ->
            ShaderMaterialPushes(materials, RenderSceneCalls[i].tag, material)
      [] RenderSceneCalls[i].op = "Draw" ->
            << Push("draw", RenderSceneCalls[i].mesh) >>

\* pushes, each marked with the position in RenderSceneCalls of the call
\* that made it
FromCall(pushes, i) ==
    [k \in 1 .. Len(pushes) |->
        [name |-> pushes[k].name, value |-> pushes[k].value, call |-> i]]

RECURSIVE ScenePushes(_, _, _, _, _)
\* the pushes and draws of the calls from the i-th on
ScenePushes(i, ids, n, materials, material) ==
    IF i > Len(RenderSceneCalls)
    THEN << >>
    ELSE FromCall(CallPushes(i, ids, n, materials, material), i)
            \o ScenePushes(i + 1, ids, n, materials, material)

\* void SceneManager::RenderScene()
RenderScene ==
    \E material \in IndeterminateMaterials :
        /\ frame' = ScenePushes(1, m_textureIDs, m_loadedTextures,
                                m_objectMaterials, material)
        /\ prevFrame' = frame
        /\ sink' = ApplyPushes(sink, frame')
        /\ last' = Call("RenderScene", "", "", "")
        /\ UNCHANGED <<textureVars, m_objectMaterials, glVars, pc, sceneImages>>

\* the tags of the CreateGLTexture calls of LoadSceneTextures, in order
SceneTextureTags == <<"monitor", "table", "paperTowel", "vase", "wall">>

\* void SceneManager::LoadSceneTextures(): its next CreateGLTexture call
LoadSceneTexture ==
    /\ pc = "LoadSceneTextures"
    /\ Len(sceneImages) < Len(SceneTextureTags)
    /\ \E image \in Images :
          /\ CreateGLTexture(image, SceneTextureTags[Len(sceneImages) + 1])
          /\ sceneImages' = Append(sceneImages, image)
    /\ UNCHANGED <<pc, frame, prevFrame>>

\* void SceneManager::LoadSceneTextures(): the closing BindGLTextures call
LoadSceneBind ==
    /\ pc = "LoadSceneTextures"
    /\ Len(sceneImages) = Len(SceneTextureTags)
    /\ BindGLTextures
    /\ pc' = "SetupSceneLights"
    /\ UNCHANGED <<sceneImages, frame, prevFrame>>

\* the uniforms SetupSceneLights sets
LightPushes ==
    << Push("bUseLighting", TRUE),
       Push("lightSources[0].position", Vec3(5000, 8000, 6000)),
       Push("lightSources[0].ambientColor", Vec3(150, 130, 100)),
       Push("lightSources[0].diffuseColor", Vec3(900, 850, 750)),
       Push("lightSources[0].specularColor", Vec3(300, 250, 200)),
       Push("lightSources[0].focalStrength", 450),
       Push("lightSources[0].specularIntensity", 130),
       Push("lightSources[1].position", Vec3(-4000, 6000, 3000)),
       Push("lightSources[1].ambientColor", Vec3(100, 100, 100)),
       Push("lightSources[1].diffuseColor", Vec3(700, 650, 600)),
       Push("lightSources[1].specularColor", Vec3(200, 150, 150)),
       Push("lightSources[1].focalStrength", 150),
       Push("lightSources[1].specularIntensity", 30),
       Push("lightSources[2].position", Vec3(0, 10000, 6000)),
       Push("lightSources[2].ambientColor", Vec3(50, 50, 50)),
       Push("lightSources[2].diffuseColor", Vec3(500, 500, 450)),
       Push("lightSources[2].specularColor", Vec3(150, 150, 100)),
       Push("lightSources[2].focalStrength", 200),
       Push("lightSources[2].specularIntensity", 20),
       Push("lightSources[3].position", Vec3(0, 5000, -5000)),
       Push("lightSources[3].ambientColor", Vec3(80, 70, 70)),
       Push("lightSources[3].diffuseColor", Vec3(400, 350, 300)),
       Push("lightSources[3].specularColor", Vec3(100, 80, 50)),
       Push("lightSources[3].focalStrength", 150),
       Push("lightSources[3].specularIntensity", 10) >>

\* void SceneManager::SetupSceneLights(), called by PrepareScene
SetupSceneLights ==
    /\ pc = "SetupSceneLights"
    /\ sink' = ApplyPushes(sink, LightPushes)
    /\ last' = Call("SetupSceneLights", "", "", "")
    /\ pc' = "DefineObjectMaterials"
    /\ UNCHANGED <<textureVars, m_objectMaterials, glVars, sceneImages, frame, prevFrame>>

\* PrepareScene: DefineObjectMaterials, then the six mesh loads
PrepareMaterials ==
    /\ pc = "DefineObjectMaterials"
    /\ DefineObjectMaterials
    /\ pc' = "RenderScene"
    /\ UNCHANGED <<sceneImages, frame, prevFrame>>

\* the host's render loop calls RenderScene once per frame
RenderFrame ==
    /\ pc = "RenderScene"
    /\ RenderScene

-----------------------------------------------------------------------------
(* Specifications *)

\* The members as SceneManager.h declares them, a file that is not among the
\* sources: the registries start empty ("populated once during scene
\* preparation").
InitialMembers ==
    [m_loadedTextures |-> 0, m_textureIDs |-> << >>, m_objectMaterials |-> << >>]

\* SceneManager::SceneManager(): nothing is registered, GL is in its initial
\* state (unit 0 active, no texture bound), no uniform has been set
Init ==
    /\ m_loadedTextures = InitialMembers.m_loadedTextures
    /\ m_textureIDs = InitialMembers.m_textureIDs
    /\ m_objectMaterials = InitialMembers.m_objectMaterials
    /\ glNextName = 1
    /\ glTextures = {}
    /\ glActive = 0
    /\ glBound = [u \in {0} |-> 0]
    /\ sink = << >>
    /\ frame = << >>
    /\ prevFrame = << >>
    /\ pc = "LoadSceneTextures"
    /\ sceneImages = << >>
    /\ last = Call("SceneManager", "", "", "")
    /\ registered = << >>

\* Any sequence of calls of the texture registry's methods
Next ==
    \/ \E image \in Images, tag \in TextureTags :
          /\ m_loadedTextures < MaxLoaded
          /\ glNextName <= MaxNames
          /\ CreateGLTexture(image, tag)
          /\ UNCHANGED sceneVars
    \/ BindGLTextures /\ UNCHANGED sceneVars
    \/ /\ glNextName + m_loadedTextures <= MaxNames + 1
       /\ DestroyGLTextures
       /\ UNCHANGED sceneVars
    \/ \E tag \in TextureTags : FindTextureID(tag) /\ UNCHANGED sceneVars
    \/ \E tag \in TextureTags : FindTextureSlot(tag) /\ UNCHANGED sceneVars

Spec == Init /\ [][Next]_vars

\* Any sequence of calls of the material catalog's and the shader state's
\* methods, on a registry of up to MaxShaderLoaded textures
ShaderNext ==
    \/ \E image \in {i \in Images : SupportedChannels(i.colorChannels)},
          tag \in TextureTags :
          /\ m_loadedTextures < MaxShaderLoaded
          /\ CreateGLTexture(image, tag)
          /\ UNCHANGED sceneVars
    \/ /\ m_objectMaterials = << >>
       /\ DefineObjectMaterials
       /\ UNCHANGED sceneVars
    \/ \E tag \in MaterialTags, material \in IndeterminateMaterials :
          FindMaterial(tag, material) /\ UNCHANGED sceneVars
    \/ \E tag \in MaterialTags : SetShaderMaterial(tag) /\ UNCHANGED sceneVars
    \/ \E color \in Colors :
          SetShaderColor(color[1], color[2], color[3], color[4])
          /\ UNCHANGED sceneVars
    \/ \E tag \in TextureTags : SetShaderTexture(tag) /\ UNCHANGED sceneVars

ShaderSpec == Init /\ [][ShaderNext]_vars

\* Any sequence of SetTransformations calls
TransformNext ==
    \E scaleXYZ \in Scales, rotation \in Rotations, positionXYZ \in Positions :
        /\ SetTransformations(scaleXYZ, rotation[1], rotation[2], rotation[3],
                              positionXYZ)
        /\ UNCHANGED sceneVars

TransformSpec == Init /\ [][TransformNext]_vars

\* A scene that registers more textures than there are texture units: each
\* registration uses a tag of its own
FillNext ==
    \/ /\ m_loadedTextures < MaxFill
       /\ \E image \in {i \in Images : SupportedChannels(i.colorChannels)} :
             CreateGLTexture(image, FillTag(m_loadedTextures))
       /\ UNCHANGED sceneVars
    \/ BindGLTextures /\ UNCHANGED sceneVars
    \/ \E i \in 0 .. MaxFill : FindTextureSlot(FillTag(i)) /\ UNCHANGED sceneVars

FillSpec == Init /\ [][FillNext]_vars

\* The program as the host runs it: PrepareScene once, then RenderScene for
\* every frame
SceneNext ==
    \/ LoadSceneTexture
    \/ LoadSceneBind
    \/ SetupSceneLights
    \/ PrepareMaterials
    \/ RenderFrame

SceneSpec == Init /\ [][SceneNext]_vars

-----------------------------------------------------------------------------
(* Properties *)

RegisteredTags == {registered[i][1] : i \in DOMAIN registered}

RegisteredIDs == {registered[i][2] : i \in DOMAIN registered}

CatalogTags == {m_objectMaterials[i].tag : i \in DOMAIN m_objectMaterials}

LookupSlot(tag) == FindTextureSlotOf(m_textureIDs, m_loadedTextures, tag)

LookupHandle(tag) == FindTextureIDOf(m_textureIDs, m_loadedTextures, tag)

\* C1: for every texture whose registration returned true, the slot found
\* for its tag is in 0..15 and is the 0-based position of that registration
\* among the successful ones.
C1_SlotIsRegistrationOrder ==
    \A i \in DOMAIN registered :
        /\ LookupSlot(registered[i][1]) \in 0 .. (MaxTextureUnits - 1)
        /\ LookupSlot(registered[i][1]) = i - 1

\* C2: BindGLTextures never binds more than 16 texture units, however many
\* textures are registered.
C2_BindWithinUnits ==
    last.op = "BindGLTextures" =>
        Cardinality({last.out[k][1] : k \in DOMAIN last.out}) <= MaxTextureUnits

\* C3: FindMaterial with a tag no catalog entry has returns false and leaves
\* the caller's material as it was, for an empty and a non-empty catalog.
C3_MissReportsNotFound ==
    (last.op = "FindMaterial" /\ last.arg[1] \notin CatalogTags) =>
        (last.ret = FALSE /\ last.out = last.arg[2])

\* C4: SetShaderMaterial with a tag that is not in the catalog pushes none
\* of the five material uniforms.
C4_MissPushesNothing ==
    (last.op = "SetShaderMaterial" /\ last.arg \notin CatalogTags) =>
        last.out = << >>

\* C5: after DestroyGLTextures no handle allocated by a successful
\* CreateGLTexture is still live, and DestroyGLTextures allocates none.
C5_ReleaseFreesHandles ==
    last.op = "DestroyGLTextures" =>
        (RegisteredIDs \cap glTextures = {} /\ last.out = {})

\* C6: CreateGLTexture on an image that decodes with a channel count other
\* than 3 or 4 returns false and leaves the registry's size and entries as
\* they were; a tag that was not registered before is still looked up as -1
\* (slot and handle).
C6_UnsupportedChannelsRejected ==
    [][ (/\ last'.op = "CreateGLTexture"
         /\ last'.arg[1].loaded
         /\ last'.arg[1].colorChannels \notin {3, 4})
        => (/\ last'.ret = FALSE
            /\ m_loadedTextures' = m_loadedTextures
            /\ m_textureIDs' = m_textureIDs
            /\ last'.arg[2] \notin RegisteredTags =>
                  /\ FindTextureSlotOf(m_textureIDs', m_loadedTextures',
                                       last'.arg[2]) = -1
                  /\ FindTextureIDOf(m_textureIDs', m_loadedTextures',
                                     last'.arg[2]) = -1) ]_vars

C6_Witness ==
    /\ last.op = "CreateGLTexture"
    /\ last.arg[1].loaded
    /\ last.arg[1].colorChannels = 2
    /\ last.ret = FALSE
    /\ m_loadedTextures >= 1
    /\ last.arg[2] \notin RegisteredTags
    /\ LookupSlot(last.arg[2]) = -1

\* the scene textures whose file did not decode
FailedSceneTags ==
    {SceneTextureTags[k] : k \in {j \in DOMAIN sceneImages : ~sceneImages[j].loaded}}

\* C7: when a scene texture fails to decode in LoadSceneTextures, the
\* CreateGLTexture call returns false and leaves the registry as it was, the
\* remaining textures are still loaded, and the failed tag is looked up as
\* -1 during PrepareScene and in every RenderScene frame after it.
C7_FailedLoadStaysUnresolved ==
    /\ [][ (last'.op = "CreateGLTexture" /\ ~last'.arg[1].loaded)
           => (/\ last'.ret = FALSE
               /\ UNCHANGED textureVars
               /\ pc' = "LoadSceneTextures"
               /\ Len(sceneImages') = Len(sceneImages) + 1) ]_vars
    /\ [](\A tag \in FailedSceneTags : LookupSlot(tag) = -1)
    /\ [](\A k \in DOMAIN frame :
            (/\ frame[k].name = "objectTexture"
             /\ RenderSceneCalls[frame[k].call].tag \in FailedSceneTags)
            => frame[k].value = -1)
    /\ [](pc # "LoadSceneTextures" =>
            \A k \in DOMAIN SceneTextureTags :
                sceneImages[k].colorChannels \in {3, 4}
                    => LookupSlot(SceneTextureTags[k]) # -1)

C7_Witness ==
    /\ pc = "RenderScene"
    /\ frame # << >>
    /\ prevFrame # << >>
    /\ ~sceneImages[1].loaded
    /\ sceneImages[2].colorChannels = 3
    /\ LookupSlot("table") = 0
    /\ \E k \in DOMAIN frame :
          /\ frame[k].name = "objectTexture"
          /\ RenderSceneCalls[frame[k].call].tag = "monitor"
          /\ frame[k].value = -1

\* C8: for a tag that no successful CreateGLTexture has used, FindTextureSlot
\* and FindTextureID both return -1, the empty registry included.
C8_UnregisteredTagUnresolved ==
    /\ \A tag \in TextureTags \ RegisteredTags :
          LookupSlot(tag) = -1 /\ LookupHandle(tag) = -1
    /\ (last.op \in {"FindTextureSlot", "FindTextureID"}
          /\ last.arg \notin RegisteredTags) => last.ret = -1

C8_Witness ==
    /\ last.op = "FindTextureID"
    /\ m_loadedTextures >= 2
    /\ last.arg \notin RegisteredTags
    /\ last.ret = -1

\* C9: a successful CreateGLTexture (an image of 3 or 4 channels) returns
\* true, makes the registry one larger, stores the tag and the new handle at
\* the slot that was the size before, and leaves the earlier entries alone.
C9_RegisterAppends ==
    [][ (/\ last'.op = "CreateGLTexture"
         /\ last'.arg[1].loaded
         /\ last'.arg[1].colorChannels \in {3, 4})
        => (/\ last'.ret = TRUE
            /\ m_loadedTextures' = m_loadedTextures + 1
            /\ m_loadedTextures \in DOMAIN m_textureIDs'
            /\ m_textureIDs'[m_loadedTextures].tag = last'.arg[2]
            /\ m_textureIDs'[m_loadedTextures].ID = last'.out
            /\ last'.out \in glTextures' \ glTextures
            /\ \A i \in 0 .. (m_loadedTextures - 1) :
                  m_textureIDs'[i] = m_textureIDs[i]) ]_vars

C9_Witness ==
    /\ last.op = "CreateGLTexture"
    /\ last.ret = TRUE
    /\ m_loadedTextures >= 2
    /\ m_textureIDs[m_loadedTextures - 1].ID = last.out

\* C10: BindGLTextures binds, for i = 0, 1, ... in this order, the handle of
\* entry i to texture unit i and nothing else, and leaves the registry alone.
C10_BindEachSlotToItsUnit ==
    [][ last'.op = "BindGLTextures"
        => (/\ last'.out = [k \in 1 .. m_loadedTextures |->
                               <<k - 1, m_textureIDs[k - 1].ID>>]
            /\ \A i \in 0 .. (m_loadedTextures - 1) :
                  glBound'[i] = m_textureIDs[i].ID
            /\ \A u \in (DOMAIN glBound') \ (0 .. (m_loadedTextures - 1)) :
                  u \in DOMAIN glBound /\ glBound'[u] = glBound[u]
            /\ UNCHANGED textureVars) ]_vars

C10_Witness ==
    /\ last.op = "BindGLTextures"
    /\ m_loadedTextures >= 2
    /\ Len(last.out) = m_loadedTextures
    /\ glBound[1] = m_textureIDs[1].ID

\* C11: the use-texture flag of the uniform sink follows the most recent
\* call among SetShaderColor and SetShaderTexture: SetShaderColor sets it to
\* false and pushes the RGBA colour, SetShaderTexture sets it to true and
\* pushes the slot found for the tag as the sampler (-1 for a tag that is
\* not registered), and no other call touches the flag.
C11_FlagFollowsLastCall ==
    [][ /\ last'.op = "SetShaderColor" =>
              /\ last'.out = << Push("bUseTexture", FALSE),
                                Push("objectColor", last'.arg) >>
              /\ "bUseTexture" \in DOMAIN sink'
              /\ sink'["bUseTexture"] = FALSE
              /\ sink'["objectColor"] = last'.arg
        /\ last'.op = "SetShaderTexture" =>
              /\ last'.out =
                    << Push("bUseTexture", TRUE),
                       Push("objectTexture",
                            FindTextureSlotOf(m_textureIDs, m_loadedTextures,
                                              last'.arg)) >>
              /\ "bUseTexture" \in DOMAIN sink'
              /\ sink'["bUseTexture"] = TRUE
              /\ sink'["objectTexture"] =
                    FindTextureSlotOf(m_textureIDs, m_loadedTextures, last'.arg)
              /\ last'.arg \notin RegisteredTags => sink'["objectTexture"] = -1
        /\ last'.op \notin {"SetShaderColor", "SetShaderTexture"} =>
              /\ "bUseTexture" \in DOMAIN sink' <=> "bUseTexture" \in DOMAIN sink
              /\ "bUseTexture" \in DOMAIN sink =>
                    sink'["bUseTexture"] = sink["bUseTexture"] ]_vars

\* SetShaderColor after SetShaderTexture resolved a registered tag: the
\* sampler still holds the slot, texturing is off
C11_Witness ==
    /\ last.op = "SetShaderColor"
    /\ "objectTexture" \in DOMAIN sink
    /\ sink["objectTexture"] = 1
    /\ sink["bUseTexture"] = FALSE
    /\ sink["objectColor"] = last.arg

\* C12: two executions of RenderScene on the same prepared scene emit the
\* same sequence of uniform pushes and draws, in the same order and with the
\* same values, and RenderScene changes neither the texture registry nor
\* the material catalog.
C12_RenderSceneRepeats ==
    /\ [](prevFrame # << >> => frame = prevFrame)
    /\ [][ last'.op = "RenderScene" =>
              /\ UNCHANGED <<m_loadedTextures, m_textureIDs, m_objectMaterials>>
              /\ frame # << >> => frame' = frame ]_vars

C12_Witness ==
    /\ last.op = "RenderScene"
    /\ prevFrame # << >>
    /\ frame = prevFrame
    /\ Len(frame) > Len(RenderSceneCalls)
    /\ LookupSlot("vase") = 1
    /\ LookupSlot("wall") = -1
    /\ \E k \in DOMAIN frame : frame[k].name = "material.shininess"

\* the position in registered of the earliest successful registration of tag
FirstRegistration(tag) ==
    CHOOSE i \in DOMAIN registered :
        /\ registered[i][1] = tag
        /\ \A j \in 1 .. (i - 1) : registered[j][1] # tag

\* the positions in registered whose tag an earlier registration used already
LaterRegistrations ==
    {i \in DOMAIN registered : \E j \in 1 .. (i - 1) : registered[j][1] = registered[i][1]}

\* C13: when several successful registrations used the same tag,
\* FindTextureSlot and FindTextureID of that tag return the slot of the
\* earliest of them and the handle its entry holds, and no lookup returns
\* the slot or the handle of a later entry with that tag.
C13_FirstRegistrationWins ==
    /\ \A tag \in RegisteredTags :
          /\ LookupSlot(tag) = FirstRegistration(tag) - 1
          /\ LookupHandle(tag) = m_textureIDs[FirstRegistration(tag) - 1].ID
    /\ \A i \in LaterRegistrations, tag \in TextureTags :
          /\ LookupSlot(tag) # i - 1
          /\ LookupHandle(tag) # m_textureIDs[i - 1].ID
    /\ (last.op = "FindTextureSlot" /\ last.arg \in RegisteredTags) =>
          (/\ last.ret = FirstRegistration(last.arg) - 1
           /\ \A i \in LaterRegistrations : last.ret # i - 1)
    /\ (last.op = "FindTextureID" /\ last.arg \in RegisteredTags) =>
          (/\ last.ret = m_textureIDs[FirstRegistration(last.arg) - 1].ID
           /\ \A i \in LaterRegistrations : last.ret # m_textureIDs[i - 1].ID)

\* a lookup of a tag that was registered twice, the second time last
C13_Witness ==
    /\ last.op = "FindTextureID"
    /\ Len(registered) = 3
    /\ registered[2][1] = last.arg
    /\ registered[3][1] = last.arg
    /\ registered[1][1] # last.arg
    /\ last.ret = registered[2][2]
    /\ last.ret = m_textureIDs[1].ID
    /\ LookupSlot(last.arg) = 1

\* the matrix that moves by p and does nothing else: the identity in the
\* upper-left 3x3 block, p in the fourth column, (0, 0, 0, 1) in the last row
PureTranslation(p) ==
    [i \in 1 .. 4 |->
        [j \in 1 .. 4 |->
            IF i = j THEN 1000
            ELSE IF j = 4 THEN p[i]
            ELSE 0]]

\* C14: SetTransformations with scale (1,1,1), rotation (0,0,0) and
\* translation (tx,ty,tz) submits as the model matrix the pure translation
\* by (tx,ty,tz); for translation (0,0,0) it submits the identity matrix.
C14_UnitScaleNoRotationTranslates ==
    (/\ last.op = "SetTransformations"
     /\ last.arg.scaleXYZ = <<1000, 1000, 1000>>
     /\ last.arg.XrotationDegrees = 0
     /\ last.arg.YrotationDegrees = 0
     /\ last.arg.ZrotationDegrees = 0)
    => (/\ last.out = << Push("model", PureTranslation(last.arg.positionXYZ)) >>
        /\ sink["model"] = PureTranslation(last.arg.positionXYZ)
        /\ last.arg.positionXYZ = <<0, 0, 0>> =>
              sink["model"] = << <<1000, 0, 0, 0>>, <<0, 1000, 0, 0>>,
                                 <<0, 0, 1000, 0>>, <<0, 0, 0, 1000>> >>)

C14_Witness ==
    /\ last.op = "SetTransformations"
    /\ last.arg.scaleXYZ = <<1000, 1000, 1000>>
    /\ last.arg.XrotationDegrees = 0
    /\ last.arg.YrotationDegrees = 0
    /\ last.arg.ZrotationDegrees = 0
    /\ last.arg.positionXYZ = <<-1400, 0, 3000>>
    /\ sink["model"][1][4] = -1400
    /\ sink["model"][3][4] = 3000
    /\ sink["model"][2][2] = 1000

RECURSIVE PushedSinceDraw(_, _)
\* the uniforms pushed at the positions of log from k back to the nearest
\* draw before it (or to the start of the frame)
PushedSinceDraw(log, k) ==
    IF k = 0 THEN {}
    ELSE IF log[k].name = "draw" THEN {}
    ELSE {log[k].name} \cup PushedSinceDraw(log, k - 1)

\* the uniforms SetShaderMaterial pushes
MaterialUniforms ==
    {"material.ambientColor", "material.ambientStrength", "material.diffuseColor",
     "material.specularColor", "material.shininess"}

\* C15: in every RenderScene frame each draw is preceded, after the draw
\* before it, by the material pushes of SetShaderMaterial and by the
\* use-texture push of SetShaderColor or SetShaderTexture: no draw uses
\* material or colour/texture uniforms left by an earlier primitive.
C15_EveryDrawSetsMaterialAndColor ==
    \A k \in DOMAIN frame :
        frame[k].name = "draw" =>
            /\ MaterialUniforms \subseteq PushedSinceDraw(frame, k - 1)
            /\ "bUseTexture" \in PushedSinceDraw(frame, k - 1)

RECURSIVE ModelPushesSinceDraw(_, _)
\* how many times the model matrix is pushed at the positions of log from k
\* back to the nearest draw before it (or to the start of the frame)
ModelPushesSinceDraw(log, k) ==
    IF k = 0 THEN 0
    ELSE IF log[k].name = "draw" THEN 0
    ELSE (IF log[k].name = "model" THEN 1 ELSE 0) + ModelPushesSinceDraw(log, k - 1)

\* C16: in every RenderScene frame the model matrix is pushed exactly once
\* between two consecutive draws and exactly once before the first draw,
\* each time before the draw it belongs to (no push of it follows the last
\* draw): no draw reuses the transform of an earlier primitive.
C16_OneModelPushPerDraw ==
    /\ \A k \in DOMAIN frame :
          frame[k].name = "draw" => ModelPushesSinceDraw(frame, k - 1) = 1
    /\ frame # << >> =>
          /\ frame[Len(frame)].name = "draw"
          /\ frame[1].name = "model"

C16_Witness ==
    /\ last.op = "RenderScene"
    /\ Cardinality({k \in DOMAIN frame : frame[k].name = "draw"}) = 16
    /\ Cardinality({k \in DOMAIN frame : frame[k].name = "model"}) = 16
    /\ frame[Len(frame)].value = "Plane"

\* the handles the registry's entries hold
RegistryHandles == {m_textureIDs[i].ID : i \in 0 .. (m_loadedTextures - 1)}

\* C17: after a CreateGLTexture call returns, true or false, the texture
\* object it allocated (if it allocated one) is held by a registry entry: a
\* call that returns false leaves no allocated texture outside the registry.
C17_AllocatedTextureIsRegistered ==
    last.op = "CreateGLTexture" =>
        (last.out \in glTextures => last.out \in RegistryHandles)

=============================================================================
